---- MODULE Spec2Model ----
(***************************************************************************)
(* A model of the two scripts of the repository:                           *)
(*   seesea/model/multihead/train.py  (augment_batch, preprocess_batch,    *)
(*                                     compute_metrics, main)              *)
(*   seesea/model/test_beaufort.py    (main)                               *)
(* Library objects (datasets, image processor, trainer, torch model) are    *)
(* opaque: the model records which calls the scripts make, with which      *)
(* arguments and in which order.                                           *)
(*                                                                         *)
(* Encodings.  An optional value (Python None or a value) is <<>> or <<v>>. *)
(* A path is the sequence of its components, so "" is <<>> and              *)
(* os.path.join is concatenation.                                          *)
(***************************************************************************)
EXTENDS Integers, Sequences, FiniteSets, TLC

\* ------------------------------------------------------------------ bounds
MaxEpochs == 2
MaxBatch == 2
MaxSamples == 3
MaxTestSamples == 2
MaxNames == 2
MaxCols == 2
MaxBatchLen == 2
MaxKeys == 2

\* num_training_samples when <input>/split_sizes.json is absent
DefaultTrainingSamples == 65536

\* ------------------------------------------------------------ python values
None == <<>>
Some(v) == <<v>>
IsNone(o) == o = <<>>
Val(o) == o[1]

\* bool(x) of an optional string/path: None and "" are falsy
TruthyPath(o) == ~IsNone(o) /\ Val(o) # <<>>

\* os.path.join(a, b) for a relative b
Join(a, b) == a \o b

\* os.pardir
pardir == <<"..">>

Pad2(n) == IF n < 10 THEN "0" \o ToString(n) ELSE ToString(n)

\* t.strftime("%Y_%m_%d_%H%M") of t = <<year, month, day, hour, minute>>
Strftime(t) ==
    ToString(t[1]) \o "_" \o Pad2(t[2]) \o "_" \o Pad2(t[3]) \o "_" \o Pad2(t[4]) \o Pad2(t[5])

\* -------------------------------------------------------------- input sets
Checkpoints == {None, Some(<<>>), Some(<<"runs", "checkpoint-1">>)}
Inputs == {<<"data">>}
Rotations == {None, Some(0), Some(15)}
Models == {"resnet18"}
Outputs == {<<"data", "train">>, <<"out">>}
\* learning rate and warmup ratio in units of 1/1000
LearningRates == {1, 5}
WarmupRatios == {100, 200}
OutputNames == {<<"wind">>, <<"wind", "wave">>}
Clocks == {<<2024, 3, 7, 9, 5>>, <<2025, 11, 23, 17, 45>>}

ArgSet ==
    [checkpoint : Checkpoints, input : Inputs, rotation : Rotations, model : Models,
     output : Outputs, epochs : 0..MaxEpochs, batch_size : 1..MaxBatch,
     learning_rate : LearningRates, warmup_ratio : WarmupRatios,
     output_names : OutputNames]

\* content of <input>/split_sizes.json "training", or no such file
SplitSizes == {None} \cup {Some(n) : n \in 0..MaxSamples}

\* ------------------------------------------------------------------- state
VARIABLES
    args,                  \* parsed command line of train.py
    clock,                 \* datetime.now(utc) at start
    split_file,            \* split_sizes.json as found on disk
    pc,                    \* position in train.main
    timestamp_str, output_dir, num_training_samples, total_steps,
    image_processor, model, training_args, augmentation,
    train_ds, val_ds, test_ds,
    trainer,               \* arguments of Trainer(...)
    calls,                 \* trainer.train / trainer.predict calls, in order
    fs_dirs,               \* directories created by this run
    fs_files,              \* files written by this run, in order
    prev,                  \* the previous run (arguments and effects), if any
    \* test_beaufort.py
    targs,                 \* parsed command line of test_beaufort.py
    hw,                    \* torch.cuda / torch.backends.mps availability
    net,                   \* the loaded model.pt: logits for each pixel value
    samples,               \* the preprocessed split, in stream order
    tpc,                   \* position in test_beaufort.main
    device, net_device, net_training,
    pos,                   \* samples the loader has handed out
    batch, outputs,
    forwards,              \* the model calls made, in order
    added,                 \* accuracy.add_batch calls, in order
    results,               \* accuracy.compute() results, in order
    t_files,               \* files written by test_beaufort.py
    \* compute_metrics
    m_names, m_predictions, m_labels, m_i, m_results, m_pc,
    \* augment_batch / preprocess_batch
    p_keys, p_entry, p_samples, p_pc

trainVars ==
    <<args, clock, split_file, pc, timestamp_str, output_dir, num_training_samples,
      total_steps, image_processor, model, training_args, augmentation,
      train_ds, val_ds, test_ds, trainer, calls, fs_dirs, fs_files, prev>>

testVars ==
    <<targs, hw, net, samples, tpc, device, net_device, net_training, pos, batch, outputs,
      forwards, added, results, t_files>>

metricVars == <<m_names, m_predictions, m_labels, m_i, m_results, m_pc>>

batchVars == <<p_keys, p_entry, p_samples, p_pc>>

vars == <<trainVars, testVars, metricVars, batchVars>>

Unset == <<>>

\* ------------------------------------------------------------ dataset model
\* A streaming dataset is its source split and the lazy operations stacked
\* on it, in order.
Split(input, name) == <<<<"load", input, name>>>>
Take(ds, n) == Append(ds, <<"take", n>>)
Shuffle(ds) == Append(ds, <<"shuffle">>)
MapAugment(ds, aug) == Append(ds, <<"augment_batch", aug>>)
MapPreprocess(ds, proc, keys) == Append(ds, <<"preprocess_batch", proc, keys>>)
SelectColumns(ds, cols) == Append(ds, <<"select_columns", cols>>)

\* ---------------------------------------------------------------- train.main
TrainInit ==
    /\ args \in ArgSet
    /\ clock \in Clocks
    /\ split_file \in SplitSizes
    /\ pc = "makedirs"
    /\ timestamp_str = Unset /\ output_dir = Unset
    /\ num_training_samples = Unset /\ total_steps = Unset
    /\ image_processor = Unset /\ model = Unset /\ training_args = Unset
    /\ augmentation = Unset
    /\ train_ds = Unset /\ val_ds = Unset /\ test_ds = Unset
    /\ trainer = Unset
    /\ calls = <<>>
    /\ fs_dirs = {}
    /\ fs_files = <<>>
    /\ prev = None

\* lines 59-63
MakeDirs ==
    /\ pc = "makedirs"
    /\ fs_dirs' = fs_dirs \cup {args.output}
    /\ timestamp_str' = Strftime(clock)
    /\ pc' = "output_dir"
    /\ UNCHANGED <<args, clock, split_file, output_dir, num_training_samples, total_steps,
                   image_processor, model, training_args, augmentation, train_ds, val_ds,
                   test_ds, trainer, calls, fs_files, prev>>
    /\ UNCHANGED <<testVars, metricVars, batchVars>>

\* lines 65-70
OutputDirOf(a, ts) ==
    IF TruthyPath(a.checkpoint)
    THEN Join(Val(a.checkpoint), pardir)
    ELSE Join(a.output, <<ts>>)

ChooseOutputDir ==
    /\ pc = "output_dir"
    /\ output_dir' = OutputDirOf(args, timestamp_str)
    /\ pc' = "split_sizes"
    /\ UNCHANGED <<args, clock, split_file, timestamp_str, num_training_samples,
                   total_steps, image_processor, model, training_args, augmentation,
                   train_ds, val_ds, test_ds, trainer, calls, fs_dirs, fs_files, prev>>
    /\ UNCHANGED <<testVars, metricVars, batchVars>>

\* lines 72-83
NumTrainingSamples(file) == IF IsNone(file) THEN DefaultTrainingSamples ELSE Val(file)

\* a step budget that rounds the last partial batch up
TotalStepsCeil(n, batch_size, epochs) == ((n + batch_size - 1) \div batch_size) * epochs

\* lines 85-86
TotalSteps(n, batch_size, epochs) == (n \div batch_size) * epochs

ReadSplitSizes ==
    /\ pc = "split_sizes"
    /\ num_training_samples' = NumTrainingSamples(split_file)
    /\ total_steps' = TotalSteps(NumTrainingSamples(split_file), args.batch_size, args.epochs)
    /\ pc' = "load"
    /\ UNCHANGED <<args, clock, split_file, timestamp_str, output_dir, image_processor,
                   model, training_args, augmentation, train_ds, val_ds, test_ds, trainer,
                   calls, fs_dirs, fs_files, prev>>
    /\ UNCHANGED <<testVars, metricVars, batchVars>>

\* line 88: which branch loads the model
FreshRun(a) == IsNone(a.checkpoint)

\* lines 96-110
FreshTrainingArguments(a, dir, steps) ==
    [output_dir |-> dir, eval_strategy |-> "epoch", save_strategy |-> "epoch",
     load_best_model_at_end |-> TRUE, save_total_limit |-> 1,
     learning_rate |-> a.learning_rate, lr_scheduler_type |-> "cosine",
     warmup_ratio |-> a.warmup_ratio,
     per_device_train_batch_size |-> a.batch_size,
     per_device_eval_batch_size |-> a.batch_size,
     logging_strategy |-> "steps", logging_steps |-> 50,
     max_steps |-> steps, ignore_data_skip |-> FALSE, origin |-> <<"constructed">>]

\* lines 89-110
LoadFresh ==
    /\ pc = "load"
    /\ FreshRun(args)
    /\ image_processor' = <<"from_pretrained", <<args.model>>>>
    /\ fs_dirs' = fs_dirs \cup {output_dir}
    /\ fs_files' = Append(fs_files, <<Join(output_dir, <<"preprocessor_config.json">>),
                                      <<"from_pretrained", <<args.model>>>>>>)
    /\ model' = <<"MultiHeadModel", args.model, Len(args.output_names)>>
    /\ training_args' = FreshTrainingArguments(args, output_dir, total_steps)
    /\ pc' = "augmentation"
    /\ UNCHANGED <<args, clock, split_file, timestamp_str, output_dir, num_training_samples,
                   total_steps, augmentation, train_ds, val_ds, test_ds, trainer, calls,
                   prev>>
    /\ UNCHANGED <<testVars, metricVars, batchVars>>

\* lines 112-115
LoadCheckpoint ==
    /\ pc = "load"
    /\ ~FreshRun(args)
    /\ image_processor' = <<"from_pretrained", output_dir>>
    /\ model' = <<"torch.load", Val(args.checkpoint)>>
    /\ training_args' =
           [origin |-> <<"torch.load", Join(Val(args.checkpoint), <<"training_args.bin">>)>>,
            ignore_data_skip |-> TRUE]
    /\ pc' = "augmentation"
    /\ UNCHANGED <<args, clock, split_file, timestamp_str, output_dir, num_training_samples,
                   total_steps, augmentation, train_ds, val_ds, test_ds, trainer, calls,
                   fs_dirs, fs_files, prev>>
    /\ UNCHANGED <<testVars, metricVars, batchVars>>

\* an augmentation switched on by the truth value of the angle
AugmentationIfTruthy(rotation) ==
    IF ~IsNone(rotation) /\ Val(rotation) # 0
    THEN Some(<<"RandomRotation", Val(rotation)>>) ELSE None

\* lines 117-120
AugmentationOf(rotation) ==
    IF ~IsNone(rotation) THEN Some(<<"RandomRotation", Val(rotation)>>) ELSE None

SetupAugmentation ==
    /\ pc = "augmentation"
    /\ augmentation' = AugmentationOf(args.rotation)
    /\ pc' = "datasets"
    /\ UNCHANGED <<args, clock, split_file, timestamp_str, output_dir, num_training_samples,
                   total_steps, image_processor, model, training_args, train_ds, val_ds,
                   test_ds, trainer, calls, fs_dirs, fs_files, prev>>
    /\ UNCHANGED <<testVars, metricVars, batchVars>>

OutColumns == <<"labels", "pixel_values">>

\* lines 126-131
TrainPipeline(input, n, aug, proc, keys) ==
    LET taken == Shuffle(Take(Split(input, "train"), n))
        augmented == IF ~IsNone(aug) THEN MapAugment(taken, Val(aug)) ELSE taken
    IN  SelectColumns(MapPreprocess(augmented, proc, keys), OutColumns)

\* lines 133 and 151
EvalPipeline(input, name, proc, keys) ==
    SelectColumns(MapPreprocess(Split(input, name), proc, keys), OutColumns)

\* lines 122-133
BuildDatasets ==
    /\ pc = "datasets"
    /\ train_ds' = TrainPipeline(args.input, num_training_samples, augmentation,
                                 image_processor, args.output_names)
    /\ val_ds' = EvalPipeline(args.input, "validation", image_processor, args.output_names)
    /\ pc' = "trainer"
    /\ UNCHANGED <<args, clock, split_file, timestamp_str, output_dir, num_training_samples,
                   total_steps, image_processor, model, training_args, augmentation,
                   test_ds, trainer, calls, fs_dirs, fs_files, prev>>
    /\ UNCHANGED <<testVars, metricVars, batchVars>>

\* lines 135-146
BuildTrainer ==
    /\ pc = "trainer"
    /\ trainer' = [model |-> model, args |-> training_args, train_dataset |-> train_ds,
                   eval_dataset |-> val_ds, metric_names |-> args.output_names]
    /\ pc' = "train"
    /\ UNCHANGED <<args, clock, split_file, timestamp_str, output_dir, num_training_samples,
                   total_steps, image_processor, model, training_args, augmentation,
                   train_ds, val_ds, test_ds, calls, fs_dirs, fs_files, prev>>
    /\ UNCHANGED <<testVars, metricVars, batchVars>>

\* line 148; the call returns or raises
Train ==
    /\ pc = "train"
    /\ calls' = Append(calls, <<"train", args.checkpoint>>)
    /\ \E ok \in BOOLEAN : pc' = IF ok THEN "test_ds" ELSE "failed"
    /\ UNCHANGED <<args, clock, split_file, timestamp_str, output_dir, num_training_samples,
                   total_steps, image_processor, model, training_args, augmentation,
                   train_ds, val_ds, test_ds, trainer, fs_dirs, fs_files, prev>>
    /\ UNCHANGED <<testVars, metricVars, batchVars>>

\* line 151
BuildTestDataset ==
    /\ pc = "test_ds"
    /\ test_ds' = EvalPipeline(args.input, "test", image_processor, args.output_names)
    /\ pc' = "predict"
    /\ UNCHANGED <<args, clock, split_file, timestamp_str, output_dir, num_training_samples,
                   total_steps, image_processor, model, training_args, augmentation,
                   train_ds, val_ds, trainer, calls, fs_dirs, fs_files, prev>>
    /\ UNCHANGED <<testVars, metricVars, batchVars>>

\* line 153; the call returns or raises
Predict ==
    /\ pc = "predict"
    /\ calls' = Append(calls, <<"predict", test_ds>>)
    /\ \E ok \in BOOLEAN : pc' = IF ok THEN "save_model" ELSE "failed"
    /\ UNCHANGED <<args, clock, split_file, timestamp_str, output_dir, num_training_samples,
                   total_steps, image_processor, model, training_args, augmentation,
                   train_ds, val_ds, test_ds, trainer, fs_dirs, fs_files, prev>>
    /\ UNCHANGED <<testVars, metricVars, batchVars>>

\* line 159
SaveModel ==
    /\ pc = "save_model"
    /\ fs_files' = Append(fs_files, <<Join(output_dir, <<"model.pt">>), model>>)
    /\ pc' = "save_names"
    /\ UNCHANGED <<args, clock, split_file, timestamp_str, output_dir, num_training_samples,
                   total_steps, image_processor, model, training_args, augmentation,
                   train_ds, val_ds, test_ds, trainer, calls, fs_dirs, prev>>
    /\ UNCHANGED <<testVars, metricVars, batchVars>>

\* lines 163-165
SaveOutputNames ==
    /\ pc = "save_names"
    /\ fs_files' = Append(fs_files, <<Join(output_dir, <<"output_names.txt">>),
                                      args.output_names>>)
    /\ pc' = "done"
    /\ UNCHANGED <<args, clock, split_file, timestamp_str, output_dir, num_training_samples,
                   total_steps, image_processor, model, training_args, augmentation,
                   train_ds, val_ds, test_ds, trainer, calls, fs_dirs, prev>>
    /\ UNCHANGED <<testVars, metricVars, batchVars>>

TrainNext ==
    \/ MakeDirs
    \/ ChooseOutputDir
    \/ ReadSplitSizes
    \/ LoadFresh
    \/ LoadCheckpoint
    \/ SetupAugmentation
    \/ BuildDatasets
    \/ BuildTrainer
    \/ Train
    \/ BuildTestDataset
    \/ Predict
    \/ SaveModel
    \/ SaveOutputNames


\* ------------------------------------------------------- running it again
\* what a run leaves behind and hands to the trainer
Effects ==
    [dirs |-> fs_dirs, files |-> fs_files, train_ds |-> train_ds, val_ds |-> val_ds,
     test_ds |-> test_ds, trainer |-> trainer, calls |-> calls]

TrainOptions ==
    {"output", "epochs", "batch_size", "learning_rate", "warmup_ratio", "output_names"}

\* the command lines that differ from a in exactly one of the options of
\* get_args_parser lines 188-202
OneOptionChanged(a) ==
    {b \in ArgSet : \E o \in TrainOptions :
        /\ b[o] # a[o]
        /\ \A f \in DOMAIN a : f # o => b[f] = a[f]}

\* lines 207-226: the script is started again, with other options, once a
\* run has completed
Rerun ==
    /\ pc = "done"
    /\ IsNone(prev)
    /\ prev' = Some([args |-> args, effects |-> Effects])
    /\ args' \in OneOptionChanged(args)
    /\ pc' = "makedirs"
    /\ timestamp_str' = Unset /\ output_dir' = Unset
    /\ num_training_samples' = Unset /\ total_steps' = Unset
    /\ image_processor' = Unset /\ model' = Unset /\ training_args' = Unset
    /\ augmentation' = Unset
    /\ train_ds' = Unset /\ val_ds' = Unset /\ test_ds' = Unset
    /\ trainer' = Unset
    /\ calls' = <<>>
    /\ fs_dirs' = {}
    /\ fs_files' = <<>>
    /\ UNCHANGED <<clock, split_file>>
    /\ UNCHANGED <<testVars, metricVars, batchVars>>


\* ------------------------------------------------------------ test_beaufort
Pixels == {0, 1}
Labels == {0, 1}
LogitRows == {<<0, 1>>, <<1, 0>>, <<1, 1>>}

Min(a, b) == IF a < b THEN a ELSE b

SeqsUpTo(S, n) == UNION {[1..k -> S] : k \in 0..n}

TestArgSet ==
    [model_dir : {<<"models", "beaufort">>}, dataset : {<<"data">>},
     output : {<<"results">>}, split : {"test"}, batch_size : 1..MaxBatch]

TestIdle ==
    /\ targs = Unset /\ hw = Unset /\ net = Unset /\ samples = Unset
    /\ tpc = "idle"
    /\ device = Unset /\ net_device = Unset /\ net_training = Unset
    /\ pos = 0 /\ batch = Unset /\ outputs = Unset
    /\ forwards = <<>> /\ added = <<>> /\ results = <<>>
    /\ t_files = {}

TestInit ==
    /\ targs \in TestArgSet
    /\ hw \in [cuda : BOOLEAN, mps : BOOLEAN]
    /\ net \in [Pixels -> LogitRows]
    /\ samples \in SeqsUpTo([pixel_values : Pixels, labels : Labels], MaxTestSamples)
    /\ tpc = "load"
    /\ device = Unset /\ net_device = Unset /\ net_training = Unset
    /\ pos = 0 /\ batch = Unset /\ outputs = Unset
    /\ forwards = <<>> /\ added = <<>> /\ results = <<>>
    /\ t_files = {}

\* lines 24-34: torch.load leaves the model where and as it was saved
LoadModel ==
    /\ tpc = "load"
    /\ net_device' \in {"cpu", "cuda", "mps"}
    /\ net_training' \in BOOLEAN
    /\ tpc' = "device"
    /\ UNCHANGED <<targs, hw, net, samples, device, pos, batch, outputs, forwards, added,
                   results, t_files>>
    /\ UNCHANGED <<trainVars, metricVars, batchVars>>

\* a choice that prefers mps to cuda
DeviceMpsFirst(h) == IF h.mps THEN "mps" ELSE IF h.cuda THEN "cuda" ELSE "cpu"

\* lines 37-42
DeviceFor(h) == IF h.cuda THEN "cuda" ELSE IF h.mps THEN "mps" ELSE "cpu"

\* lines 37-44
SelectDevice ==
    /\ tpc = "device"
    /\ device' = DeviceFor(hw)
    /\ net_device' = DeviceFor(hw)
    /\ tpc' = "eval"
    /\ UNCHANGED <<targs, hw, net, samples, net_training, pos, batch, outputs, forwards,
                   added, results, t_files>>
    /\ UNCHANGED <<trainVars, metricVars, batchVars>>

\* lines 47-51
EvalMode ==
    /\ tpc = "eval"
    /\ net_training' = FALSE
    /\ tpc' = "loop"
    /\ UNCHANGED <<targs, hw, net, samples, device, net_device, pos, batch, outputs,
                   forwards, added, results, t_files>>
    /\ UNCHANGED <<trainVars, metricVars, batchVars>>

\* line 52, the loader hands out the next batch_size samples (the last batch
\* may be shorter), collated on the host
NextBatch ==
    /\ tpc = "loop"
    /\ pos < Len(samples)
    /\ LET end == Min(pos + targs.batch_size, Len(samples))
           rows == SubSeq(samples, pos + 1, end)
       IN  /\ batch' = [pixel_values |-> [i \in 1..Len(rows) |-> rows[i].pixel_values],
                        labels |-> [i \in 1..Len(rows) |-> rows[i].labels],
                        device |-> "cpu"]
           /\ pos' = end
    /\ tpc' = "to_device"
    /\ UNCHANGED <<targs, hw, net, samples, device, net_device, net_training, outputs,
                   forwards, added, results, t_files>>
    /\ UNCHANGED <<trainVars, metricVars, batchVars>>

\* line 53
ToDevice ==
    /\ tpc = "to_device"
    /\ batch' = [batch EXCEPT !.device = device]
    /\ tpc' = "forward"
    /\ UNCHANGED <<targs, hw, net, samples, device, net_device, net_training, pos, outputs,
                   forwards, added, results, t_files>>
    /\ UNCHANGED <<trainVars, metricVars, batchVars>>

\* lines 54-55
Forward ==
    /\ tpc = "forward"
    /\ outputs' = [i \in 1..Len(batch.pixel_values) |-> net[batch.pixel_values[i]]]
    /\ forwards' = Append(forwards, [pixel_values |-> batch.pixel_values,
                                     batch_device |-> batch.device,
                                     net_device |-> net_device,
                                     net_training |-> net_training])
    /\ tpc' = "add"
    /\ UNCHANGED <<targs, hw, net, samples, device, net_device, net_training, pos, batch,
                   added, results, t_files>>
    /\ UNCHANGED <<trainVars, metricVars, batchVars>>

\* torch.argmax over the last dimension: the (0-based) index of the first
\* largest entry
Argmax(row) ==
    (CHOOSE i \in 1..Len(row) :
        /\ \A j \in 1..Len(row) : row[j] <= row[i]
        /\ \A j \in 1..(i - 1) : row[j] < row[i]) - 1

\* the index of the first smallest entry
Argmin(row) ==
    (CHOOSE i \in 1..Len(row) :
        /\ \A j \in 1..Len(row) : row[j] >= row[i]
        /\ \A j \in 1..(i - 1) : row[j] > row[i]) - 1

PredictionsArgmin(logits) == [i \in 1..Len(logits) |-> Argmin(logits[i])]

\* lines 57-58
Predictions(logits) == [i \in 1..Len(logits) |-> Argmax(logits[i])]

\* line 59
AddBatch ==
    /\ tpc = "add"
    /\ added' = Append(added, [predictions |-> Predictions(outputs),
                               references |-> batch.labels])
    /\ tpc' = "loop"
    /\ UNCHANGED <<targs, hw, net, samples, device, net_device, net_training, pos, batch,
                   outputs, forwards, results, t_files>>
    /\ UNCHANGED <<trainVars, metricVars, batchVars>>

RECURSIVE Correct(_, _, _)
Correct(p, r, i) ==
    IF i > Len(p) THEN 0 ELSE (IF p[i] = r[i] THEN 1 ELSE 0) + Correct(p, r, i + 1)

RECURSIVE Tally(_, _)
\* accuracy over the batches added: <<correct, total>>
Tally(adds, k) ==
    IF k > Len(adds) THEN <<0, 0>>
    ELSE LET rest == Tally(adds, k + 1)
         IN  <<Correct(adds[k].predictions, adds[k].references, 1) + rest[1],
               Len(adds[k].predictions) + rest[2]>>

\* lines 52 (loader exhausted) and 61-63
Compute ==
    /\ tpc = "loop"
    /\ pos >= Len(samples)
    /\ results' = Append(results, Tally(added, 1))
    /\ tpc' = "done"
    /\ UNCHANGED <<targs, hw, net, samples, device, net_device, net_training, pos, batch,
                   outputs, forwards, added, t_files>>
    /\ UNCHANGED <<trainVars, metricVars, batchVars>>

TestNext ==
    \/ LoadModel
    \/ SelectDevice
    \/ EvalMode
    \/ NextBatch
    \/ ToDevice
    \/ Forward
    \/ AddBatch
    \/ Compute

\* ---------------------------------------------------------- compute_metrics
Names == {"wind", "wave"}
Vals == {0, 1}
RowCounts == {1, 2}

MetricIdle ==
    /\ m_names = Unset /\ m_predictions = Unset /\ m_labels = Unset
    /\ m_i = 0 /\ m_results = Unset /\ m_pc = "idle"

MetricInit ==
    /\ m_names \in SeqsUpTo(Names, MaxNames)
    /\ \E r \in RowCounts : \E c \in 1..MaxCols :
          /\ c >= Len(m_names)
          /\ m_predictions \in [1..r -> [1..c -> Vals]]
          /\ m_labels \in [1..r -> [1..c -> Vals]]
    /\ m_i = 0
    /\ m_results = <<>>
    /\ m_pc = "loop"

Abs(x) == IF x < 0 THEN -x ELSE x

RECURSIVE SumAbs(_, _, _)
SumAbs(p, r, i) == IF i > Len(p) THEN 0 ELSE Abs(p[i] - r[i]) + SumAbs(p, r, i + 1)

\* metric.compute(predictions, references)["mae"] as <<sum of |p - r|, count>>
Mae(p, r) == <<SumAbs(p, r, 1), Len(p)>>

\* a slice that always takes the first column
FirstColumn(matrix, i) == [r \in 1..Len(matrix) |-> matrix[r][1]]

\* matrix[:, i] with i counted from 0
Column(matrix, i) == [r \in 1..Len(matrix) |-> matrix[r][i + 1]]

RECURSIVE FlattenFrom(_, _)
FlattenFrom(matrix, r) ==
    IF r > Len(matrix) THEN <<>> ELSE matrix[r] \o FlattenFrom(matrix, r + 1)

\* matrix.flatten()
Flatten(matrix) == FlattenFrom(matrix, 1)

\* results[key] = value
SetItem(d, key, value) ==
    [k \in (DOMAIN d) \cup {key} |-> IF k = key THEN value ELSE d[k]]

\* lines 47-48, one iteration
MetricStep ==
    /\ m_pc = "loop"
    /\ m_i < Len(m_names)
    /\ m_results' = SetItem(m_results, "mae_" \o m_names[m_i + 1],
                            Mae(Column(m_predictions, m_i), Column(m_labels, m_i)))
    /\ m_i' = m_i + 1
    /\ UNCHANGED <<m_names, m_predictions, m_labels, m_pc>>
    /\ UNCHANGED <<trainVars, testVars, batchVars>>

\* lines 50-51
MetricOverall ==
    /\ m_pc = "loop"
    /\ m_i >= Len(m_names)
    /\ m_results' = SetItem(m_results, "mae", Mae(Flatten(m_predictions), Flatten(m_labels)))
    /\ m_pc' = "done"
    /\ UNCHANGED <<m_names, m_predictions, m_labels, m_i>>
    /\ UNCHANGED <<trainVars, testVars, batchVars>>

MetricNext == MetricStep \/ MetricOverall

\* ------------------------------------------- augment_batch, preprocess_batch
Images == {1, 2}
Keys == {"wind", "wave"}

\* the augmentation callable (a rotation) and the image processor, on one image
Rotate(jpg) == jpg + 10
ProcessImage(jpg) == 2 * jpg + 1

\* transform(images): the processor's output dictionary
Transform(jpgs) == [pixel_values |-> [i \in 1..Len(jpgs) |-> ProcessImage(jpgs[i])]]

BatchIdle == p_keys = Unset /\ p_entry = Unset /\ p_samples = Unset /\ p_pc = "idle"

BatchInit ==
    /\ p_keys \in SeqsUpTo(Keys, MaxKeys)
    /\ \E n \in 0..MaxBatchLen :
          \E jpgs \in [1..n -> Images] : \E objs \in [1..n -> [Keys -> Vals]] :
              p_samples = [c \in {"jpg", "json", "__key__"} |->
                              CASE c = "jpg" -> jpgs
                                [] c = "json" -> objs
                                [] c = "__key__" -> [i \in 1..n |-> i]]
    /\ p_entry = Unset
    /\ p_pc = "raw"

\* lines 28-31
AugmentBatch ==
    /\ p_pc = "raw"
    /\ p_samples' = SetItem(p_samples, "jpg",
                            [i \in 1..Len(p_samples["jpg"]) |-> Rotate(p_samples["jpg"][i])])
    /\ p_pc' = "augmented"
    /\ UNCHANGED <<p_keys, p_entry>>
    /\ UNCHANGED <<trainVars, testVars, metricVars>>

\* rows built key by key instead of sample by sample
LabelRowsByKey(keys, objs) ==
    [k \in 1..Len(keys) |-> [j \in 1..Len(objs) |-> objs[j][keys[k]]]]

\* line 37
LabelRows(keys, objs) ==
    [j \in 1..Len(objs) |-> [k \in 1..Len(keys) |-> objs[j][keys[k]]]]

\* lines 34-38
PreprocessBatch ==
    /\ p_pc \in {"raw", "augmented"}
    /\ p_entry' = p_samples
    /\ p_samples' = SetItem(SetItem(p_samples, "pixel_values",
                                    Transform(p_samples["jpg"]).pixel_values),
                            "labels", LabelRows(p_keys, p_samples["json"]))
    /\ p_pc' = "done"
    /\ UNCHANGED p_keys
    /\ UNCHANGED <<trainVars, testVars, metricVars>>

BatchNext == AugmentBatch \/ PreprocessBatch

\* ----------------------------------------------------------- specifications
TrainIdle ==
    /\ args = Unset /\ clock = Unset /\ split_file = Unset /\ pc = "idle"
    /\ timestamp_str = Unset /\ output_dir = Unset
    /\ num_training_samples = Unset /\ total_steps = Unset
    /\ image_processor = Unset /\ model = Unset /\ training_args = Unset
    /\ augmentation = Unset
    /\ train_ds = Unset /\ val_ds = Unset /\ test_ds = Unset
    /\ trainer = Unset /\ calls = <<>> /\ fs_dirs = {} /\ fs_files = <<>>
    /\ prev = None

InitTrain == TrainInit /\ TestIdle /\ MetricIdle /\ BatchIdle

SpecTrain == InitTrain /\ [][TrainNext]_vars

RerunNext == TrainNext \/ Rerun

SpecRerun == InitTrain /\ [][RerunNext]_vars

InitTest == TestInit /\ TrainIdle /\ MetricIdle /\ BatchIdle

SpecTest == InitTest /\ [][TestNext]_vars

\* the interpreter keeps executing the script until main returns
FairSpecTest == SpecTest /\ WF_vars(TestNext)

InitMetrics == MetricInit /\ TrainIdle /\ TestIdle /\ BatchIdle

SpecMetrics == InitMetrics /\ [][MetricNext]_vars

InitBatch == BatchInit /\ TrainIdle /\ TestIdle /\ MetricIdle

SpecBatch == InitBatch /\ [][BatchNext]_vars

\* ------------------------------------------------------ library semantics
\* columns of a webdataset sample
SourceColumns == {"jpg", "json", "__key__", "__url__"}

Range(s) == {s[i] : i \in 1..Len(s)}

\* columns of a dataset after one lazy operation
ColumnsAfter(cols, op) ==
    CASE op[1] = "preprocess_batch" -> cols \cup {"pixel_values", "labels"}
      [] op[1] = "select_columns" -> cols \cap Range(op[2])
      [] OTHER -> cols

RECURSIVE ColumnsFrom(_, _, _)
ColumnsFrom(cols, ds, i) ==
    IF i > Len(ds) THEN cols ELSE ColumnsFrom(ColumnsAfter(cols, ds[i]), ds, i + 1)

Columns(ds) == ColumnsFrom(SourceColumns, ds, 2)

\* positions of the operations named kind in a dataset
OpsAt(ds, kind) == {i \in 1..Len(ds) : ds[i][1] = kind}

\* os.path.normpath: ".." cancels the component before it
RECURSIVE NormFrom(_, _, _)
NormFrom(acc, p, i) ==
    IF i > Len(p) THEN acc
    ELSE IF p[i] = ".." /\ acc # <<>> /\ acc[Len(acc)] # ".."
         THEN NormFrom(SubSeq(acc, 1, Len(acc) - 1), p, i + 1)
         ELSE NormFrom(Append(acc, p[i]), p, i + 1)

NormPath(p) == NormFrom(<<>>, p, 1)

\* the directory holding path p ("" is the working directory, whose parent is "..")
ParentDir(p) == IF p = <<>> THEN <<"..">> ELSE SubSeq(p, 1, Len(p) - 1)

\* YYYY_MM_DD_HHMM of the two start times of Clocks
ExpectedTimestamp(t) ==
    CASE t = <<2024, 3, 7, 9, 5>> -> "2024_03_07_0905"
      [] t = <<2025, 11, 23, 17, 45>> -> "2025_11_23_1745"

FileNames == {Join(output_dir, <<"model.pt">>), Join(output_dir, <<"output_names.txt">>)}
FilePos(path) == {i \in 1..Len(fs_files) : fs_files[i][1] = path}
TrainCalled == Len(calls) >= 1
PredictReturned == pc \in {"save_model", "save_names", "done"}

\* ----------------------------------------------------------------- claims

\* C1 (as stated): whenever trainer.train has been called, a given
\* --checkpoint means the model and the training arguments were loaded from
\* the checkpoint (ignore_data_skip set), the image processor from the
\* checkpoint's parent directory, nothing was saved and the call resumes from
\* the checkpoint; an absent --checkpoint means the pretrained model and
\* processor were loaded, the processor saved to the output directory, fresh
\* TrainingArguments built with max_steps = total_steps, and the call resumes
\* from None.
C1_ResumeBranch ==
    TrainCalled =>
        /\ calls[1] = <<"train", args.checkpoint>>
        /\ ~IsNone(args.checkpoint) =>
              /\ model = <<"torch.load", Val(args.checkpoint)>>
              /\ training_args.origin[1] = "torch.load"
              /\ training_args.ignore_data_skip
              /\ image_processor[1] = "from_pretrained"
              /\ NormPath(image_processor[2]) = NormPath(ParentDir(Val(args.checkpoint)))
              /\ FilePos(Join(output_dir, <<"preprocessor_config.json">>)) = {}
        /\ IsNone(args.checkpoint) =>
              /\ image_processor = <<"from_pretrained", <<args.model>>>>
              /\ model = <<"MultiHeadModel", args.model, Len(args.output_names)>>
              /\ FilePos(Join(output_dir, <<"preprocessor_config.json">>)) # {}
              /\ training_args.origin = <<"constructed">>
              /\ training_args.max_steps = total_steps

\* C5 (as stated): two completed runs with the same --checkpoint (a
\* non-empty path) and --input that differ in --output, --epochs, --batch-size,
\* --learning-rate, --warmup-ratio or --output-names have the same effects.
C5_OptionsUnused ==
    (/\ pc = "done"
     /\ ~IsNone(prev)
     /\ TruthyPath(args.checkpoint)
     /\ Val(prev).args.checkpoint = args.checkpoint
     /\ Val(prev).args.input = args.input
     /\ Val(prev).args # args)
        => Val(prev).effects = Effects

\* the step budget of a fresh run, once TrainingArguments exists
FreshBudget == training_args # Unset /\ IsNone(args.checkpoint)

\* C7 (as stated): max_steps = (n div batch_size) * epochs with n read from
\* split_sizes.json or 65536, epochs * (n - batch_size) < max_steps *
\* batch_size <= epochs * n for every epochs >= 0, and max_steps >= 1
\* whenever epochs >= 1 and n >= 1.
C7_StepBudget ==
    FreshBudget =>
        LET n == num_training_samples
            b == args.batch_size
            e == args.epochs
            m == training_args.max_steps
        IN  /\ n = (IF IsNone(split_file) THEN 65536 ELSE Val(split_file))
            /\ e * (n - b) < m * b
            /\ m * b <= e * n
            /\ (e >= 1 /\ n >= 1) => m >= 1

\* C7 (amended): n is the "training" entry or 65536; max_steps is a multiple
\* of epochs with max_steps * batch_size <= epochs * n; the lower bound
\* epochs * (n - batch_size) < max_steps * batch_size holds for epochs >= 1
\* (for epochs = 0 both sides are 0); max_steps >= 1 whenever epochs >= 1 and
\* n >= batch_size.
C7_StepBudgetAmended ==
    FreshBudget =>
        LET n == num_training_samples
            b == args.batch_size
            e == args.epochs
            m == training_args.max_steps
        IN  /\ n = (IF IsNone(split_file) THEN 65536 ELSE Val(split_file))
            /\ m * b <= e * n
            /\ e = 0 => m = 0
            /\ e >= 1 => (m % e = 0 /\ e * (n - b) < m * b)
            /\ (e >= 1 /\ n >= b) => m >= 1

\* a fresh run whose sample count is no multiple of the batch size
C7_Witness ==
    /\ FreshBudget
    /\ pc = "train"
    /\ args.epochs = 2 /\ args.batch_size = 2 /\ num_training_samples = 3
    /\ training_args.max_steps = 2

\* C8, the directory: <output>/<YYYY_MM_DD_HHMM> without a checkpoint, the
\* checkpoint's parent directory with one.
C8_OutputDir ==
    output_dir # Unset =>
        IF IsNone(args.checkpoint)
        THEN output_dir = Join(args.output, <<ExpectedTimestamp(clock)>>)
        ELSE NormPath(output_dir) = NormPath(ParentDir(Val(args.checkpoint)))

\* C8, the order: model.pt and output_names.txt go to the output directory,
\* model.pt first, and only after trainer.train and trainer.predict returned.
C8_Ordering ==
    /\ \A i \in 1..Len(fs_files) :
          fs_files[i][1] \in FileNames =>
              /\ PredictReturned
              /\ Len(calls) = 2 /\ calls[1][1] = "train" /\ calls[2] = <<"predict", test_ds>>
    /\ \A i \in FilePos(Join(output_dir, <<"output_names.txt">>)) :
          \E j \in FilePos(Join(output_dir, <<"model.pt">>)) : j < i
    /\ pc = "failed" => \A i \in 1..Len(fs_files) : fs_files[i][1] \notin FileNames
    /\ pc = "done" =>
          /\ FilePos(Join(output_dir, <<"model.pt">>)) # {}
          /\ FilePos(Join(output_dir, <<"output_names.txt">>)) # {}

\* C8 (as stated): the output directory and the order of the two files.
C8_PathsAndOrder == C8_OutputDir /\ C8_Ordering

\* C9: the training split gets the rotation exactly when --rotation is not
\* None (0 included), after take-then-shuffle and before preprocessing; the
\* validation and test splits get none; every split ends with exactly the
\* columns labels and pixel_values.
C9_AugmentationScope ==
    /\ train_ds # Unset =>
          /\ (OpsAt(train_ds, "augment_batch") # {}) <=> ~IsNone(args.rotation)
          /\ \A i \in OpsAt(train_ds, "augment_batch") :
                /\ train_ds[i][2] = <<"RandomRotation", Val(args.rotation)>>
                /\ \A j \in OpsAt(train_ds, "preprocess_batch") : i < j
                /\ \A j \in OpsAt(train_ds, "shuffle") : j < i
          /\ train_ds[1] = <<"load", args.input, "train">>
          /\ train_ds[2] = <<"take", num_training_samples>>
          /\ train_ds[3] = <<"shuffle">>
          /\ Cardinality(OpsAt(train_ds, "preprocess_batch")) = 1
          /\ Columns(train_ds) = {"labels", "pixel_values"}
    /\ val_ds # Unset =>
          /\ val_ds[1] = <<"load", args.input, "validation">>
          /\ OpsAt(val_ds, "augment_batch") = {}
          /\ Columns(val_ds) = {"labels", "pixel_values"}
    /\ test_ds # Unset =>
          /\ test_ds[1] = <<"load", args.input, "test">>
          /\ OpsAt(test_ds, "augment_batch") = {}
          /\ Columns(test_ds) = {"labels", "pixel_values"}
    /\ pc = "done" => (train_ds # Unset /\ val_ds # Unset /\ test_ds # Unset)

\* a completed run with --rotation 0: the training split is augmented
C9_Witness ==
    /\ pc = "done"
    /\ args.rotation = Some(0)
    /\ OpsAt(train_ds, "augment_batch") = {4}
    /\ test_ds # Unset

\* ------------------------------------------------- claims on test_beaufort
\* main is past line 44
DeviceChosen == tpc \in {"eval", "loop", "to_device", "forward", "add", "done"}

\* C2: exactly one device is chosen, cuda whenever cuda is available, mps
\* only when cuda is not and mps is, cpu only when neither is; every model
\* call finds the model and the batch tensors on that device.
C2_DeviceSelection ==
    DeviceChosen =>
        /\ device \in {"cuda", "mps", "cpu"}
        /\ (device = "cuda") <=> hw.cuda
        /\ (device = "mps") <=> (~hw.cuda /\ hw.mps)
        /\ (device = "cpu") <=> (~hw.cuda /\ ~hw.mps)
        /\ net_device = device
        /\ \A k \in 1..Len(forwards) :
              forwards[k].net_device = device /\ forwards[k].batch_device = device

\* two batches evaluated on mps, cuda being unavailable
C2_Witness ==
    /\ device = "mps"
    /\ hw = [cuda |-> FALSE, mps |-> TRUE]
    /\ Len(forwards) = 2

\* C6 (as stated): once main has completed, the accuracy has been written
\* to a file under args.output.
C6_ResultsSaved ==
    tpc = "done" =>
        \E f \in t_files :
            /\ Len(f) > Len(targs.output)
            /\ SubSeq(f, 1, Len(targs.output)) = targs.output

\* the k-th batch of the split, k counted from 1
ExpectedBatch(k) ==
    SubSeq(samples, (k - 1) * targs.batch_size + 1, Min(k * targs.batch_size, Len(samples)))

NumBatches == (Len(samples) + targs.batch_size - 1) \div targs.batch_size

\* c is the class with the largest logit of row (the first such class)
IsArgmax(row, c) ==
    /\ c + 1 \in 1..Len(row)
    /\ \A j \in 1..Len(row) : row[j] <= row[c + 1]
    /\ \A j \in 1..c : row[j] < row[c + 1]

LoopInvariant ==
    tpc # "idle" =>
        /\ Len(forwards) <= NumBatches
        /\ Len(added) <= Len(forwards) /\ Len(forwards) <= Len(added) + 1
        /\ \A k \in 1..Len(forwards) :
              /\ ~forwards[k].net_training
              /\ Len(forwards[k].pixel_values) = Len(ExpectedBatch(k))
              /\ \A i \in 1..Len(ExpectedBatch(k)) :
                    forwards[k].pixel_values[i] = ExpectedBatch(k)[i].pixel_values
        /\ \A k \in 1..Len(added) :
              /\ Len(added[k].predictions) = Len(ExpectedBatch(k))
              /\ Len(added[k].references) = Len(ExpectedBatch(k))
              /\ \A i \in 1..Len(ExpectedBatch(k)) :
                    /\ added[k].references[i] = ExpectedBatch(k)[i].labels
                    /\ IsArgmax(net[ExpectedBatch(k)[i].pixel_values],
                                added[k].predictions[i])
        /\ Len(results) <= 1
        /\ results # <<>> => (Len(added) = NumBatches /\ tpc = "done")
        /\ tpc = "done" => Len(results) = 1

\* C10: the model is in eval mode for every batch; the batches of the loader
\* go through the model once each, in order, each followed by one add_batch
\* of its argmax predictions and its own labels; compute() is called once,
\* after the last add_batch; and the run reaches the end of main.
C10_EvalLoop == []LoopInvariant /\ <>(tpc = "done")

\* a completed run over two batches whose predictions differ
C10_Witness ==
    /\ tpc = "done"
    /\ Len(added) = 2
    /\ added[1].predictions # added[2].predictions
    /\ results = <<<<1, 2>>>>

\* ----------------------------------------------- claims on compute_metrics
KeyOf(name) == "mae_" \o name

RECURSIVE ColumnError(_, _)
\* sum over rows 1..r of |predictions - labels| in column c (from 1)
ColumnError(c, r) ==
    IF r = 0 THEN 0
    ELSE Abs(m_predictions[r][c] - m_labels[r][c]) + ColumnError(c, r - 1)

RECURSIVE TotalError(_)
TotalError(c) ==
    IF c = 0 THEN 0 ELSE ColumnError(c, Len(m_predictions)) + TotalError(c - 1)

LastOccurrence(i) == \A j \in (i + 1)..Len(m_names) : m_names[j] # m_names[i]

Distinct(names) == \A i, j \in 1..Len(names) : i # j => names[i] # names[j]

\* C3: the result holds mae_<name> for every output name, the error of the
\* column at the name's position (the last one when a name is repeated), and
\* mae, the error over all entries of the matrices; with pairwise distinct
\* names it has len(output_names) + 1 keys.
C3_Metrics ==
    m_pc = "done" =>
        LET rows == Len(m_predictions)
            cols == Len(m_predictions[1])
        IN  /\ DOMAIN m_results = {KeyOf(m_names[i]) : i \in 1..Len(m_names)} \cup {"mae"}
            /\ \A i \in 1..Len(m_names) :
                  LastOccurrence(i) =>
                      m_results[KeyOf(m_names[i])] = <<ColumnError(i, rows), rows>>
            /\ m_results["mae"] = <<TotalError(cols), rows * cols>>
            /\ Distinct(m_names) => Cardinality(DOMAIN m_results) = Len(m_names) + 1

\* two outputs whose columns have different errors
C3_Witness ==
    /\ m_pc = "done"
    /\ m_names = <<"wind", "wave">>
    /\ Len(m_predictions) = 2
    /\ m_results["mae_wind"] = <<0, 2>>
    /\ m_results["mae_wave"] = <<2, 2>>

\* ---------------------------------------------- claims on preprocess_batch
\* C4: labels has one row per element of json, in order, row j being the
\* values of label_keys in label_keys order; pixel_values is the transform of
\* jpg; every other column is as it was on entry.
C4_Preprocess ==
    p_pc = "done" =>
        LET objs == p_entry["json"]
        IN  /\ DOMAIN p_samples = (DOMAIN p_entry) \cup {"labels", "pixel_values"}
            /\ Len(p_samples["labels"]) = Len(objs)
            /\ \A j \in 1..Len(objs) :
                  /\ Len(p_samples["labels"][j]) = Len(p_keys)
                  /\ \A k \in 1..Len(p_keys) :
                        p_samples["labels"][j][k] = objs[j][p_keys[k]]
            /\ Len(p_samples["pixel_values"]) = Len(p_entry["jpg"])
            /\ \A j \in 1..Len(p_entry["jpg"]) :
                  p_samples["pixel_values"][j] = ProcessImage(p_entry["jpg"][j])
            /\ \A c \in DOMAIN p_entry : p_samples[c] = p_entry[c]

\* a batch of two samples with different labels, keys in the order wave, wind
C4_Witness ==
    /\ p_pc = "done"
    /\ p_keys = <<"wave", "wind">>
    /\ p_samples["labels"] = <<<<0, 1>>, <<1, 1>>>>
    /\ p_samples["jpg"] = <<11, 12>>

====
